---- MODULE Spec2Model ----
(***************************************************************************)
(* Binary-grid flood fill with a safety radius (FloodFill), on the dense   *)
(* boolean grid type BinaryImage, modelled from the C++ sources.           *)
(***************************************************************************)
EXTENDS Integers, Sequences, FiniteSets, TLC

(***************************************************************************)
(* Bounds of the explored inputs.                                          *)
(***************************************************************************)
MaxW == 3
MaxH == 2
MaxBg == 2
MaxRadius == 1
MaxSE == 4
MaxArea == 3

(***************************************************************************)
(* BinaryImage: width, height and a row-major pixel vector.                *)
(* pixels_[y * width_ + x] of the source is pixels[y * width + x + 1].     *)
(***************************************************************************)
BinaryImage(w, h, fill_value) ==
    [width |-> w, height |-> h, pixels |-> [i \in 1..(w * h) |-> fill_value]]

ImgGet_ColumnMajor(img, x, y) ==
    IF x < 0 \/ x >= img.width \/ y < 0 \/ y >= img.height
    THEN FALSE
    ELSE img.pixels[x * img.height + y + 1]

ImgGet(img, x, y) ==
    IF x < 0 \/ x >= img.width \/ y < 0 \/ y >= img.height
    THEN FALSE
    ELSE img.pixels[y * img.width + x + 1]

ImgSet_NoUpperXCheck(img, x, y, value) ==
    IF x >= 0 /\ y >= 0 /\ y < img.height
    THEN [img EXCEPT !.pixels[y * img.width + x + 1] = value]
    ELSE img

ImgSet(img, x, y, value) ==
    IF x >= 0 /\ x < img.width /\ y >= 0 /\ y < img.height
    THEN [img EXCEPT !.pixels[y * img.width + x + 1] = value]
    ELSE img

clear(img) == [img EXCEPT !.pixels = [i \in 1..Len(img.pixels) |-> FALSE]]

fill(img, value) == [img EXCEPT !.pixels = [i \in 1..Len(img.pixels) |-> value]]

(***************************************************************************)
(* Two BinaryImage objects side by side.  An object is its width_, its     *)
(* height_ and the name of the pixel vector it owns; st maps each vector's *)
(* name to its contents.  Deref reads an object as a grid value and Store   *)
(* writes a grid value back into the object's vector.  clone() builds a    *)
(* new object owning the vector "copy" and copy-assigns the pixels to it.  *)
(***************************************************************************)
Deref(st, obj) ==
    [width |-> obj.width, height |-> obj.height, pixels |-> st[obj.pixels_]]

Store(st, obj, img) == [st EXCEPT ![obj.pixels_] = img.pixels]

clone_SharesBuffer(st, obj) == [storage |-> st, copy |-> obj]

clone(st, obj) ==
    LET fresh == BinaryImage(obj.width, obj.height, FALSE)
        made  == [st EXCEPT !["copy"] = fresh.pixels]
    IN  [storage |-> [made EXCEPT !["copy"] = made[obj.pixels_]],
         copy |-> [width |-> obj.width, height |-> obj.height,
                   pixels_ |-> "copy"]]

(***************************************************************************)
(* The engine's state: one variable per member of class FloodFill, the     *)
(* caller's grid and latest seed, and what the latest call returned        *)
(* ("true" or "false" from step(), "none" from a call that returns none), *)
(* and whether setConnectivity() was called since the latest initialize(). *)
(***************************************************************************)
VARIABLES connectivity_, algorithm_, safety_radius_, offsets_, disk_offsets_,
          source_, result_, safety_mask_, state_, frontier_, current_pixel_,
          target_value_, initialized_, filled_count_, unsafe_count_,
          width_, height_, image, seed, ret, reconnected

(***************************************************************************)
(* The morphology engine: the members of class Morphology, the caller's    *)
(* input grid and the grid the latest apply() returned (0 x 0 before the   *)
(* first call), and the builder call that made the structuring element:   *)
(* its name and its size argument, and the operation and boundary mode the *)
(* latest apply() ran with.                                                *)
(***************************************************************************)
VARIABLES se_, operation_, boundary_, input, output, built, applied_with

(***************************************************************************)
(* A BinaryImage in use: the grid, the latest clone of it (0 x 0 before    *)
(* the first clone()), the pixel vectors of both, the latest call (its     *)
(* name, the object it was made on, its arguments, and for a get() that    *)
(* directly follows an in-bounds set() of the same pixel of the same       *)
(* object the value that set() wrote), and what the latest get() returned. *)
(***************************************************************************)
VARIABLES storage, grid, copy, call, got

imageVars == <<storage, grid, copy, call, got>>

morphVars == <<se_, operation_, boundary_, input, output, built, applied_with>>

floodVars ==
    <<connectivity_, algorithm_, safety_radius_, offsets_, disk_offsets_,
      source_, result_, safety_mask_, state_, frontier_, current_pixel_,
      target_value_, initialized_, filled_count_, unsafe_count_,
      width_, height_, image, seed, ret, reconnected>>

vars == <<connectivity_, algorithm_, safety_radius_, offsets_, disk_offsets_,
          source_, result_, safety_mask_, state_, frontier_, current_pixel_,
          target_value_, initialized_, filled_count_, unsafe_count_,
          width_, height_, image, seed, ret, reconnected,
          se_, operation_, boundary_, input, output, built, applied_with,
          storage, grid, copy, call, got>>

Connectivity == {"Four", "Eight"}
FillAlgorithm == {"BFS", "DFS"}
PixelState == {"Unvisited", "InQueue", "Processed", "Boundary", "Unsafe"}

(***************************************************************************)
(* The engine as one record, so that its methods are functions on it.      *)
(***************************************************************************)
Engine ==
    [connectivity |-> connectivity_, algorithm |-> algorithm_,
     safety_radius |-> safety_radius_, offsets |-> offsets_,
     disk_offsets |-> disk_offsets_, source |-> source_, result |-> result_,
     safety_mask |-> safety_mask_, state |-> state_, frontier |-> frontier_,
     current_pixel |-> current_pixel_, target_value |-> target_value_,
     initialized |-> initialized_, filled_count |-> filled_count_,
     unsafe_count |-> unsafe_count_, width |-> width_, height |-> height_]

updateOffsets_AlwaysEight(c) ==
    << <<0, -1>>, <<0, 1>>, <<-1, 0>>, <<1, 0>>,
       <<-1, -1>>, <<1, -1>>, <<-1, 1>>, <<1, 1>> >>

updateOffsets_NoEast(c) ==
    LET four == << <<0, -1>>, <<0, 1>>, <<-1, 0>> >>
    IN  IF c = "Eight"
        THEN four \o << <<-1, -1>>, <<1, -1>>, <<-1, 1>>, <<1, 1>> >>
        ELSE four

updateOffsets(c) ==
    LET four == << <<0, -1>>, <<0, 1>>, <<-1, 0>>, <<1, 0>> >>
    IN  IF c = "Eight"
        THEN four \o << <<-1, -1>>, <<1, -1>>, <<-1, 1>>, <<1, 1>> >>
        ELSE four

updateDiskOffsets_LargeRadiusEmpty(r) ==
    IF r <= 0 \/ r >= 2 THEN << >>
    ELSE LET side == 2 * r + 1
             all  == [i \in 1..(side * side) |->
                        << ((i - 1) % side) - r, ((i - 1) \div side) - r >>]
             InDisk(o) == o[1] * o[1] + o[2] * o[2] <= r * r
         IN  SelectSeq(all, InDisk)

updateDiskOffsets(r) ==
    IF r <= 0 THEN << >>
    ELSE LET side == 2 * r + 1
             all  == [i \in 1..(side * side) |->
                        << ((i - 1) % side) - r, ((i - 1) \div side) - r >>]
             InDisk(o) == o[1] * o[1] + o[2] * o[2] <= r * r
         IN  SelectSeq(all, InDisk)

FloodFillNew(c, a, r) ==
    [connectivity |-> c, algorithm |-> a, safety_radius |-> r,
     offsets |-> updateOffsets(c), disk_offsets |-> updateDiskOffsets(r),
     source |-> BinaryImage(1, 1, FALSE), result |-> BinaryImage(1, 1, FALSE),
     safety_mask |-> BinaryImage(1, 1, FALSE), state |-> << >>,
     frontier |-> << >>, current_pixel |-> <<-1, -1>>,
     target_value |-> FALSE, initialized |-> FALSE, filled_count |-> 0,
     unsafe_count |-> 0, width |-> 0, height |-> 0]

isValid(e, x, y) == x >= 0 /\ x < e.width /\ y >= 0 /\ y < e.height

checkCircleFits_RadiusZeroSkipsBounds(e, center_x, center_y) ==
    IF e.safety_radius <= 0
    THEN ImgGet(e.source, center_x, center_y) = e.target_value
    ELSE \A i \in 1..Len(e.disk_offsets) :
            LET nx == center_x + e.disk_offsets[i][1]
                ny == center_y + e.disk_offsets[i][2]
            IN  isValid(e, nx, ny) /\ ImgGet(e.source, nx, ny) = e.target_value

checkCircleFits(e, center_x, center_y) ==
    IF e.safety_radius <= 0
    THEN isValid(e, center_x, center_y)
         /\ ImgGet(e.source, center_x, center_y) = e.target_value
    ELSE \A i \in 1..Len(e.disk_offsets) :
            LET nx == center_x + e.disk_offsets[i][1]
                ny == center_y + e.disk_offsets[i][2]
            IN  isValid(e, nx, ny) /\ ImgGet(e.source, nx, ny) = e.target_value

getCirclePositions(e, center_x, center_y) ==
    [i \in 1..Len(e.disk_offsets) |->
        << center_x + e.disk_offsets[i][1], center_y + e.disk_offsets[i][2] >>]

precomputeSafetyMask(e) ==
    [width |-> e.width, height |-> e.height,
     pixels |-> [i \in 1..(e.width * e.height) |->
        LET x == (i - 1) % e.width
            y == (i - 1) \div e.width
        IN  IF e.safety_radius <= 0
            THEN ImgGet(e.source, x, y) = e.target_value
            ELSE ImgGet(e.source, x, y) = e.target_value
                 /\ checkCircleFits(e, x, y)]]

StateAt(e, x, y) == e.state[y + 1][x + 1]

SetState(e, x, y, s) == [e EXCEPT !.state[y + 1][x + 1] = s]

(* initialize(), lines 120-133: bind the grid and reset the traversal.     *)
initializeReset(e, img) ==
    [e EXCEPT !.width = img.width, !.height = img.height,
              !.source = img,
              !.result = BinaryImage(img.width, img.height, FALSE),
              !.state = [y \in 1..img.height |->
                           [x \in 1..img.width |-> "Unvisited"]],
              !.frontier = << >>, !.filled_count = 0,
              !.unsafe_count = 0, !.current_pixel = <<-1, -1>>]

(* initialize(), lines 141-145: capture the target value, build the mask.  *)
initializeTarget(e, start_x, start_y) ==
    LET e2 == [e EXCEPT !.target_value = ImgGet(e.source, start_x, start_y)]
    IN  [e2 EXCEPT !.safety_mask = precomputeSafetyMask(e2)]

initialize_KeepsInitialized(e, img, start_x, start_y) ==
    LET e1 == initializeReset(e, img)
    IN  IF ~isValid(e1, start_x, start_y)
        THEN e1
        ELSE LET e3 == initializeTarget(e1, start_x, start_y)
             IN  IF ~ImgGet(e3.safety_mask, start_x, start_y)
                 THEN [SetState(e3, start_x, start_y, "Unsafe")
                          EXCEPT !.unsafe_count = e3.unsafe_count + 1,
                                 !.initialized = TRUE]
                 ELSE [SetState(e3, start_x, start_y, "InQueue")
                          EXCEPT !.frontier = Append(e3.frontier,
                                                     <<start_x, start_y>>),
                                 !.initialized = TRUE]

initialize_UnsafeSeedQueued(e, img, start_x, start_y) ==
    LET e1 == initializeReset(e, img)
    IN  IF ~isValid(e1, start_x, start_y)
        THEN [e1 EXCEPT !.initialized = FALSE]
        ELSE LET e3 == initializeTarget(e1, start_x, start_y)
                 e4 == IF ~ImgGet(e3.safety_mask, start_x, start_y)
                       THEN [SetState(e3, start_x, start_y, "Unsafe")
                                EXCEPT !.unsafe_count = e3.unsafe_count + 1]
                       ELSE e3
             IN  [SetState(e4, start_x, start_y, "InQueue")
                     EXCEPT !.frontier = Append(e4.frontier,
                                                <<start_x, start_y>>),
                            !.initialized = TRUE]

initialize_UnsafeSeedNotCounted(e, img, start_x, start_y) ==
    LET e1 == initializeReset(e, img)
    IN  IF ~isValid(e1, start_x, start_y)
        THEN [e1 EXCEPT !.initialized = FALSE]
        ELSE LET e3 == initializeTarget(e1, start_x, start_y)
             IN  IF ~ImgGet(e3.safety_mask, start_x, start_y)
                 THEN [SetState(e3, start_x, start_y, "Unsafe")
                          EXCEPT !.initialized = TRUE]
                 ELSE [SetState(e3, start_x, start_y, "InQueue")
                          EXCEPT !.frontier = Append(e3.frontier,
                                                     <<start_x, start_y>>),
                                 !.initialized = TRUE]

initialize(e, img, start_x, start_y) ==
    LET e1 == initializeReset(e, img)
    IN  IF ~isValid(e1, start_x, start_y)
        THEN [e1 EXCEPT !.initialized = FALSE]
        ELSE LET e3 == initializeTarget(e1, start_x, start_y)
             IN  IF ~ImgGet(e3.safety_mask, start_x, start_y)
                 THEN [SetState(e3, start_x, start_y, "Unsafe")
                          EXCEPT !.unsafe_count = e3.unsafe_count + 1,
                                 !.initialized = TRUE]
                 ELSE [SetState(e3, start_x, start_y, "InQueue")
                          EXCEPT !.frontier = Append(e3.frontier,
                                                     <<start_x, start_y>>),
                                 !.initialized = TRUE]

(***************************************************************************)
(* One iteration of step()'s loop over the neighbour offsets.              *)
(***************************************************************************)
visitNeighbor_NoVisitedCheck(e, x, y, o) ==
    LET nx == x + o[1]
        ny == y + o[2]
    IN  IF ~isValid(e, nx, ny) THEN e
        ELSE IF ImgGet(e.source, nx, ny) # e.target_value
             THEN SetState(e, nx, ny, "Boundary")
        ELSE IF ~ImgGet(e.safety_mask, nx, ny)
             THEN [SetState(e, nx, ny, "Unsafe")
                      EXCEPT !.unsafe_count = e.unsafe_count + 1]
        ELSE [SetState(e, nx, ny, "InQueue")
                 EXCEPT !.frontier = Append(e.frontier, <<nx, ny>>)]

visitNeighbor_NoSafetyCheck(e, x, y, o) ==
    LET nx == x + o[1]
        ny == y + o[2]
    IN  IF ~isValid(e, nx, ny) THEN e
        ELSE IF StateAt(e, nx, ny) # "Unvisited" THEN e
        ELSE IF ImgGet(e.source, nx, ny) # e.target_value
             THEN SetState(e, nx, ny, "Boundary")
        ELSE [SetState(e, nx, ny, "InQueue")
                 EXCEPT !.frontier = Append(e.frontier, <<nx, ny>>)]

visitNeighbor_QueuedNotMarked(e, x, y, o) ==
    LET nx == x + o[1]
        ny == y + o[2]
    IN  IF ~isValid(e, nx, ny) THEN e
        ELSE IF StateAt(e, nx, ny) # "Unvisited" THEN e
        ELSE IF ImgGet(e.source, nx, ny) # e.target_value
             THEN SetState(e, nx, ny, "Boundary")
        ELSE IF ~ImgGet(e.safety_mask, nx, ny)
             THEN [SetState(e, nx, ny, "Unsafe")
                      EXCEPT !.unsafe_count = e.unsafe_count + 1]
        ELSE [e EXCEPT !.frontier = Append(e.frontier, <<nx, ny>>)]

visitNeighbor_SafetyBeforeValue(e, x, y, o) ==
    LET nx == x + o[1]
        ny == y + o[2]
    IN  IF ~isValid(e, nx, ny) THEN e
        ELSE IF StateAt(e, nx, ny) # "Unvisited" THEN e
        ELSE IF ~ImgGet(e.safety_mask, nx, ny)
             THEN [SetState(e, nx, ny, "Unsafe")
                      EXCEPT !.unsafe_count = e.unsafe_count + 1]
        ELSE IF ImgGet(e.source, nx, ny) # e.target_value
             THEN SetState(e, nx, ny, "Boundary")
        ELSE [SetState(e, nx, ny, "InQueue")
                 EXCEPT !.frontier = Append(e.frontier, <<nx, ny>>)]

visitNeighbor_PushesFront(e, x, y, o) ==
    LET nx == x + o[1]
        ny == y + o[2]
    IN  IF ~isValid(e, nx, ny) THEN e
        ELSE IF StateAt(e, nx, ny) # "Unvisited" THEN e
        ELSE IF ImgGet(e.source, nx, ny) # e.target_value
             THEN SetState(e, nx, ny, "Boundary")
        ELSE IF ~ImgGet(e.safety_mask, nx, ny)
             THEN [SetState(e, nx, ny, "Unsafe")
                      EXCEPT !.unsafe_count = e.unsafe_count + 1]
        ELSE [SetState(e, nx, ny, "InQueue")
                 EXCEPT !.frontier = << <<nx, ny>> >> \o e.frontier]

visitNeighbor_UnsafeNotCounted(e, x, y, o) ==
    LET nx == x + o[1]
        ny == y + o[2]
    IN  IF ~isValid(e, nx, ny) THEN e
        ELSE IF StateAt(e, nx, ny) # "Unvisited" THEN e
        ELSE IF ImgGet(e.source, nx, ny) # e.target_value
             THEN SetState(e, nx, ny, "Boundary")
        ELSE IF ~ImgGet(e.safety_mask, nx, ny)
             THEN SetState(e, nx, ny, "Unsafe")
        ELSE [SetState(e, nx, ny, "InQueue")
                 EXCEPT !.frontier = Append(e.frontier, <<nx, ny>>)]

visitNeighbor(e, x, y, o) ==
    LET nx == x + o[1]
        ny == y + o[2]
    IN  IF ~isValid(e, nx, ny) THEN e
        ELSE IF StateAt(e, nx, ny) # "Unvisited" THEN e
        ELSE IF ImgGet(e.source, nx, ny) # e.target_value
             THEN SetState(e, nx, ny, "Boundary")
        ELSE IF ~ImgGet(e.safety_mask, nx, ny)
             THEN [SetState(e, nx, ny, "Unsafe")
                      EXCEPT !.unsafe_count = e.unsafe_count + 1]
        ELSE [SetState(e, nx, ny, "InQueue")
                 EXCEPT !.frontier = Append(e.frontier, <<nx, ny>>)]

RECURSIVE visitNeighbors(_, _, _, _)
visitNeighbors(e, x, y, i) ==
    IF i > Len(e.offsets) THEN e
    ELSE visitNeighbors(visitNeighbor(e, x, y, e.offsets[i]), x, y, i + 1)

popFrontier_DfsPopsFront(e) ==
    IF e.algorithm = "BFS"
    THEN [pixel |-> Head(e.frontier), rest |-> Tail(e.frontier)]
    ELSE [pixel |-> e.frontier[Len(e.frontier)], rest |-> Tail(e.frontier)]

popFrontier_BfsPopsBack(e) ==
    [pixel |-> e.frontier[Len(e.frontier)],
     rest  |-> SubSeq(e.frontier, 1, Len(e.frontier) - 1)]

popFrontier_DfsDropsFront(e) ==
    IF e.algorithm = "BFS"
    THEN [pixel |-> Head(e.frontier), rest |-> Tail(e.frontier)]
    ELSE [pixel |-> e.frontier[Len(e.frontier)],
          rest  |-> SubSeq(e.frontier, 2, Len(e.frontier) - 1)]

popFrontier(e) ==
    IF e.algorithm = "BFS"
    THEN [pixel |-> Head(e.frontier), rest |-> Tail(e.frontier)]
    ELSE [pixel |-> e.frontier[Len(e.frontier)],
          rest  |-> SubSeq(e.frontier, 1, Len(e.frontier) - 1)]

step_ReturnsInitialized(e) ==
    IF ~e.initialized \/ e.frontier = << >>
    THEN [engine |-> e, ret |-> IF e.initialized THEN "true" ELSE "false"]
    ELSE LET p  == popFrontier(e)
             x  == p.pixel[1]
             y  == p.pixel[2]
             e1 == [SetState(e, x, y, "Processed")
                       EXCEPT !.frontier = p.rest, !.current_pixel = p.pixel,
                              !.result = ImgSet(e.result, x, y, TRUE),
                              !.filled_count = e.filled_count + 1]
             e2 == visitNeighbors(e1, x, y, 1)
         IN  [engine |-> e2, ret |-> IF e2.frontier # << >> THEN "true" ELSE "false"]

step_ReturnsWhetherFilled(e) ==
    IF ~e.initialized \/ e.frontier = << >>
    THEN [engine |-> e, ret |-> "false"]
    ELSE LET p  == popFrontier(e)
             x  == p.pixel[1]
             y  == p.pixel[2]
             e1 == [SetState(e, x, y, "Processed")
                       EXCEPT !.frontier = p.rest, !.current_pixel = p.pixel,
                              !.result = ImgSet(e.result, x, y, TRUE),
                              !.filled_count = e.filled_count + 1]
             e2 == visitNeighbors(e1, x, y, 1)
         IN  [engine |-> e2, ret |-> "true"]

step(e) ==
    IF ~e.initialized \/ e.frontier = << >>
    THEN [engine |-> e, ret |-> "false"]
    ELSE LET p  == popFrontier(e)
             x  == p.pixel[1]
             y  == p.pixel[2]
             e1 == [SetState(e, x, y, "Processed")
                       EXCEPT !.frontier = p.rest, !.current_pixel = p.pixel,
                              !.result = ImgSet(e.result, x, y, TRUE),
                              !.filled_count = e.filled_count + 1]
             e2 == visitNeighbors(e1, x, y, 1)
         IN  [engine |-> e2, ret |-> IF e2.frontier # << >> THEN "true" ELSE "false"]

isComplete(e) == e.frontier = << >> /\ e.initialized

setConnectivity(e, c) ==
    [e EXCEPT !.connectivity = c, !.offsets = updateOffsets(c)]

setAlgorithm(e, a) == [e EXCEPT !.algorithm = a]

setSafetyRadius_RebuildsMask(e, r) ==
    LET e1 == [e EXCEPT !.safety_radius = r,
                        !.disk_offsets = updateDiskOffsets(r)]
    IN  [e1 EXCEPT !.safety_mask = precomputeSafetyMask(e1)]

setSafetyRadius(e, r) ==
    [e EXCEPT !.safety_radius = r, !.disk_offsets = updateDiskOffsets(r)]

getState(e, x, y) == IF ~isValid(e, x, y) THEN "Unvisited" ELSE StateAt(e, x, y)

(***************************************************************************)
(* StructuringElement and Morphology.                                      *)
(***************************************************************************)
BoundaryMode == {"Zero", "One", "Extend", "Wrap"}
MorphOperation ==
    {"Erosion", "Dilation", "InnerBoundary", "OuterBoundary", "Gradient"}

(* C++ integer division and remainder, which truncate toward zero.         *)
CDiv(a, b) == IF a >= 0 THEN a \div b ELSE -((-a) \div b)
CRem(a, b) == IF a >= 0 THEN a % b ELSE -((-a) % b)

createSquare_NoNegativeOffsets(size) ==
    LET c    == CDiv(size, 2)
        side == c + 1
    IN  [width |-> size, height |-> size, center_x |-> c, center_y |-> c,
         offsets |-> [i \in 1..(side * side) |->
                        << (i - 1) % side, (i - 1) \div side >>]]

createSquare_FootprintIsSize(size) ==
    LET c == CDiv(size, 2)
    IN  [width |-> size, height |-> size, center_x |-> c, center_y |-> c,
         offsets |-> [i \in 1..(size * size) |->
                        << ((i - 1) % size) - c, ((i - 1) \div size) - c >>]]

createSquare(size) ==
    LET c    == CDiv(size, 2)
        side == IF c < 0 THEN 0 ELSE 2 * c + 1
    IN  [width |-> size, height |-> size, center_x |-> c, center_y |-> c,
         offsets |-> [i \in 1..(side * side) |->
                        << ((i - 1) % side) - c, ((i - 1) \div side) - c >>]]

createCross_ArmsRepeatCenter(size) ==
    LET c   == CDiv(size, 2)
        arm == [i \in 1..(2 * c + 1) |-> i - c - 1]
    IN  [width |-> size, height |-> size, center_x |-> c, center_y |-> c,
         offsets |-> << <<0, 0>> >>
                     \o [i \in 1..(2 * c + 1) |-> << arm[i], 0 >>]
                     \o [i \in 1..(2 * c + 1) |-> << 0, arm[i] >>]]

createCross(size) ==
    LET c   == CDiv(size, 2)
        arm == [i \in 1..(2 * c) |-> IF i <= c THEN i - c - 1 ELSE i - c]
    IN  [width |-> size, height |-> size, center_x |-> c, center_y |-> c,
         offsets |-> << <<0, 0>> >>
                     \o [i \in 1..(2 * c) |-> << arm[i], 0 >>]
                     \o [i \in 1..(2 * c) |-> << 0, arm[i] >>]]

MorphologyNew(se, op, boundary) ==
    [se |-> se, operation |-> op, boundary |-> boundary]

setOperation(m, op) == [m EXCEPT !.operation = op]

setBoundaryMode(m, mode) == [m EXCEPT !.boundary = mode]

Clamp(v, lo, hi) == IF v < lo THEN lo ELSE IF hi < v THEN hi ELSE v

getPixelWithBoundary_ExtendClampOffByOne(m, img, x, y) ==
    LET w == img.width
        h == img.height
    IN  IF x >= 0 /\ x < w /\ y >= 0 /\ y < h THEN ImgGet(img, x, y)
        ELSE CASE m.boundary = "Zero" -> FALSE
               [] m.boundary = "One" -> TRUE
               [] m.boundary = "Extend" ->
                     ImgGet(img, Clamp(x, 0, w), Clamp(y, 0, h))
               [] m.boundary = "Wrap" ->
                     ImgGet(img, CRem(CRem(x, w) + w, w),
                                 CRem(CRem(y, h) + h, h))
               [] OTHER -> FALSE

getPixelWithBoundary_WrapPlainRemainder(m, img, x, y) ==
    LET w == img.width
        h == img.height
    IN  IF x >= 0 /\ x < w /\ y >= 0 /\ y < h THEN ImgGet(img, x, y)
        ELSE CASE m.boundary = "Zero" -> FALSE
               [] m.boundary = "One" -> TRUE
               [] m.boundary = "Extend" ->
                     ImgGet(img, Clamp(x, 0, w - 1), Clamp(y, 0, h - 1))
               [] m.boundary = "Wrap" ->
                     ImgGet(img, CRem(x, w), CRem(y, h))
               [] OTHER -> FALSE

getPixelWithBoundary_WrapSingleFold(m, img, x, y) ==
    LET w == img.width
        h == img.height
    IN  IF x >= 0 /\ x < w /\ y >= 0 /\ y < h THEN ImgGet(img, x, y)
        ELSE CASE m.boundary = "Zero" -> FALSE
               [] m.boundary = "One" -> TRUE
               [] m.boundary = "Extend" ->
                     ImgGet(img, Clamp(x, 0, w - 1), Clamp(y, 0, h - 1))
               [] m.boundary = "Wrap" ->
                     ImgGet(img, IF x < 0 THEN x + w ELSE IF x >= w THEN x - w ELSE x,
                                 IF y < 0 THEN y + h ELSE IF y >= h THEN y - h ELSE y)
               [] OTHER -> FALSE

getPixelWithBoundary_ExtendCornerIsZero(m, img, x, y) ==
    LET w == img.width
        h == img.height
    IN  IF x >= 0 /\ x < w /\ y >= 0 /\ y < h THEN ImgGet(img, x, y)
        ELSE CASE m.boundary = "Zero" -> FALSE
               [] m.boundary = "One" -> TRUE
               [] m.boundary = "Extend" ->
                     IF (x < 0 \/ x >= w) /\ (y < 0 \/ y >= h) THEN FALSE
                     ELSE ImgGet(img, Clamp(x, 0, w - 1), Clamp(y, 0, h - 1))
               [] m.boundary = "Wrap" ->
                     ImgGet(img, CRem(CRem(x, w) + w, w),
                                 CRem(CRem(y, h) + h, h))
               [] OTHER -> FALSE

getPixelWithBoundary(m, img, x, y) ==
    LET w == img.width
        h == img.height
    IN  IF x >= 0 /\ x < w /\ y >= 0 /\ y < h THEN ImgGet(img, x, y)
        ELSE CASE m.boundary = "Zero" -> FALSE
               [] m.boundary = "One" -> TRUE
               [] m.boundary = "Extend" ->
                     ImgGet(img, Clamp(x, 0, w - 1), Clamp(y, 0, h - 1))
               [] m.boundary = "Wrap" ->
                     ImgGet(img, CRem(CRem(x, w) + w, w),
                                 CRem(CRem(y, h) + h, h))
               [] OTHER -> FALSE

checkErosion_Any(m, img, x, y) ==
    \E i \in 1..Len(m.se.offsets) :
        getPixelWithBoundary(m, img, x + m.se.offsets[i][1],
                                     y + m.se.offsets[i][2])

checkErosion(m, img, x, y) ==
    \A i \in 1..Len(m.se.offsets) :
        getPixelWithBoundary(m, img, x + m.se.offsets[i][1],
                                     y + m.se.offsets[i][2])

checkDilation_InBoundsOnly(m, img, x, y) ==
    \E i \in 1..Len(m.se.offsets) :
        LET nx == x + m.se.offsets[i][1]
            ny == y + m.se.offsets[i][2]
        IN  /\ nx >= 0 /\ nx < img.width /\ ny >= 0 /\ ny < img.height
            /\ ImgGet(img, nx, ny)

checkDilation(m, img, x, y) ==
    \E i \in 1..Len(m.se.offsets) :
        getPixelWithBoundary(m, img, x + m.se.offsets[i][1],
                                     y + m.se.offsets[i][2])

checkPixel_InnerWithoutOriginal(m, img, x, y) ==
    LET original == ImgGet(img, x, y)
    IN  CASE m.operation = "Erosion" -> checkErosion(m, img, x, y)
          [] m.operation = "Dilation" -> checkDilation(m, img, x, y)
          [] m.operation = "InnerBoundary" ->
                ~checkErosion(m, img, x, y)
          [] m.operation = "OuterBoundary" ->
                checkDilation(m, img, x, y) /\ ~original
          [] m.operation = "Gradient" ->
                checkDilation(m, img, x, y) # checkErosion(m, img, x, y)
          [] OTHER -> original

checkPixel_OuterWithoutOriginal(m, img, x, y) ==
    LET original == ImgGet(img, x, y)
    IN  CASE m.operation = "Erosion" -> checkErosion(m, img, x, y)
          [] m.operation = "Dilation" -> checkDilation(m, img, x, y)
          [] m.operation = "InnerBoundary" ->
                original /\ ~checkErosion(m, img, x, y)
          [] m.operation = "OuterBoundary" ->
                checkDilation(m, img, x, y)
          [] m.operation = "Gradient" ->
                checkDilation(m, img, x, y) # checkErosion(m, img, x, y)
          [] OTHER -> original

checkPixel_GradientIsDilation(m, img, x, y) ==
    LET original == ImgGet(img, x, y)
    IN  CASE m.operation = "Erosion" -> checkErosion(m, img, x, y)
          [] m.operation = "Dilation" -> checkDilation(m, img, x, y)
          [] m.operation = "InnerBoundary" ->
                original /\ ~checkErosion(m, img, x, y)
          [] m.operation = "OuterBoundary" ->
                checkDilation(m, img, x, y) /\ ~original
          [] m.operation = "Gradient" ->
                checkDilation(m, img, x, y)
          [] OTHER -> original

checkPixel_GradientVsOriginal(m, img, x, y) ==
    LET original == ImgGet(img, x, y)
    IN  CASE m.operation = "Erosion" -> checkErosion(m, img, x, y)
          [] m.operation = "Dilation" -> checkDilation(m, img, x, y)
          [] m.operation = "InnerBoundary" ->
                original /\ ~checkErosion(m, img, x, y)
          [] m.operation = "OuterBoundary" ->
                checkDilation(m, img, x, y) /\ ~original
          [] m.operation = "Gradient" ->
                checkDilation(m, img, x, y) # original
          [] OTHER -> original

checkPixel(m, img, x, y) ==
    LET original == ImgGet(img, x, y)
    IN  CASE m.operation = "Erosion" -> checkErosion(m, img, x, y)
          [] m.operation = "Dilation" -> checkDilation(m, img, x, y)
          [] m.operation = "InnerBoundary" ->
                original /\ ~checkErosion(m, img, x, y)
          [] m.operation = "OuterBoundary" ->
                checkDilation(m, img, x, y) /\ ~original
          [] m.operation = "Gradient" ->
                checkDilation(m, img, x, y) # checkErosion(m, img, x, y)
          [] OTHER -> original

apply_TransposedDimensions(m, img) ==
    [width |-> img.height, height |-> img.width,
     pixels |-> [i \in 1..(img.width * img.height) |->
                   checkPixel(m, img, (i - 1) % img.width,
                                      (i - 1) \div img.width)]]

apply(m, img) ==
    [width |-> img.width, height |-> img.height,
     pixels |-> [i \in 1..(img.width * img.height) |->
                   checkPixel(m, img, (i - 1) % img.width,
                                      (i - 1) \div img.width)]]

getCoveredPositions(m, x, y) ==
    [i \in 1..Len(m.se.offsets) |->
        << x + m.se.offsets[i][1], y + m.se.offsets[i][2] >>]

Morph == MorphologyNew(se_, operation_, boundary_)

(***************************************************************************)
(* The grids and seeds the caller may pass.                                *)
(***************************************************************************)
Pixels(w, h) == (0..(w - 1)) \X (0..(h - 1))

ImagesOf(w, h) ==
    { [width |-> w, height |-> h, pixels |-> px] :
        px \in { f \in [1..(w * h) -> BOOLEAN] :
                   Cardinality({i \in 1..(w * h) : ~f[i]}) <= MaxBg } }

(* Every grid up to MaxW x MaxH with at most MaxBg background pixels, the   *)
(* 3 x 3 grids (the smallest on which a radius-1 disk fits) and the 5 x 5  *)
(* all-foreground grid of the documented scenario.                         *)
Images ==
    UNION { ImagesOf(w, h) : w \in 1..MaxW, h \in 1..MaxH }
    \cup ImagesOf(3, 3)
    \cup { BinaryImage(5, 5, TRUE) }

(* Every pixel of the grid, and one seed beyond each of its four sides.    *)
Seeds(img) ==
    Pixels(img.width, img.height)
    \cup { <<-1, 0>>, <<img.width, 0>>, <<0, -1>>, <<0, img.height>> }

Radii == 0..MaxRadius

AtMostOneBackground(img) ==
    Cardinality({ i \in 1..Len(img.pixels) : ~img.pixels[i] }) <= 1

(* The grids of the runs with setter calls: the grids up to MaxW x MaxH    *)
(* with at most one background pixel, and the 3 x 3 grid all foreground    *)
(* and with one background corner.                                         *)
SetterImages ==
    { g \in UNION { ImagesOf(w, h) : w \in 1..MaxW, h \in 1..MaxH } :
        AtMostOneBackground(g) }
    \cup { BinaryImage(3, 3, TRUE), ImgSet(BinaryImage(3, 3, TRUE), 0, 0, FALSE) }

(* Every grid up to MaxW x MaxH, and the structuring elements of the two   *)
(* builders up to size MaxSE.                                              *)
MorphImages ==
    UNION { { [width |-> w, height |-> h, pixels |-> px] :
                px \in [1..(w * h) -> BOOLEAN] } :
            w \in 1..MaxW, h \in 1..MaxH }
    \cup { BinaryImage(3, 3, TRUE), BinaryImage(5, 5, TRUE) }

NoImage == [width |-> 0, height |-> 0, pixels |-> << >>]

NotApplied == [operation |-> "none", boundary |-> "none"]

Builders == {"createSquare", "createCross"}

Build(b, size) ==
    IF b = "createSquare" THEN createSquare(size) ELSE createCross(size)

Dims ==
    { d \in (1..MaxArea) \X (1..MaxArea) : d[1] * d[2] <= MaxArea }
    \cup { <<2, 2>> }

Targets == {"grid", "copy"}

NoObject == [width |-> 0, height |-> 0, pixels_ |-> "copy"]

Call(op, on, x, y, value, wrote) ==
    [op |-> op, on |-> on, x |-> x, y |-> y, value |-> value, wrote |-> wrote]

ImageIdle ==
    /\ storage = [b \in Targets |-> << >>]
    /\ grid = NoObject
    /\ copy = NoObject
    /\ call = Call("none", "grid", 0, 0, FALSE, "none")
    /\ got = "none"

(***************************************************************************)
(* State machine.                                                          *)
(***************************************************************************)
Install(e) ==
    /\ connectivity_' = e.connectivity
    /\ algorithm_' = e.algorithm
    /\ safety_radius_' = e.safety_radius
    /\ offsets_' = e.offsets
    /\ disk_offsets_' = e.disk_offsets
    /\ source_' = e.source
    /\ result_' = e.result
    /\ safety_mask_' = e.safety_mask
    /\ state_' = e.state
    /\ frontier_' = e.frontier
    /\ current_pixel_' = e.current_pixel
    /\ target_value_' = e.target_value
    /\ initialized_' = e.initialized
    /\ filled_count_' = e.filled_count
    /\ unsafe_count_' = e.unsafe_count
    /\ width_' = e.width
    /\ height_' = e.height

Init ==
    \E c \in Connectivity, a \in FillAlgorithm, r \in Radii, img \in Images :
        LET e == FloodFillNew(c, a, r)
        IN  /\ connectivity_ = e.connectivity
            /\ algorithm_ = e.algorithm
            /\ safety_radius_ = e.safety_radius
            /\ offsets_ = e.offsets
            /\ disk_offsets_ = e.disk_offsets
            /\ source_ = e.source
            /\ result_ = e.result
            /\ safety_mask_ = e.safety_mask
            /\ state_ = e.state
            /\ frontier_ = e.frontier
            /\ current_pixel_ = e.current_pixel
            /\ target_value_ = e.target_value
            /\ initialized_ = e.initialized
            /\ filled_count_ = e.filled_count
            /\ unsafe_count_ = e.unsafe_count
            /\ width_ = e.width
            /\ height_ = e.height
            /\ image = img
            /\ seed = <<-1, -1>>
            /\ ret = "none"
            /\ reconnected = FALSE
            /\ se_ = createSquare(1)
            /\ built = [builder |-> "createSquare", size |-> 1]
            /\ operation_ = "Erosion"
            /\ boundary_ = "Zero"
            /\ input = BinaryImage(1, 1, FALSE)
            /\ output = NoImage
            /\ applied_with = NotApplied
            /\ ImageIdle

Initialize ==
    \E s \in Seeds(image) :
        /\ Install(initialize(Engine, image, s[1], s[2]))
        /\ seed' = s
        /\ ret' = "none"
        /\ reconnected' = FALSE
        /\ UNCHANGED image
        /\ UNCHANGED morphVars
        /\ UNCHANGED imageVars

Step ==
    LET r == step(Engine)
    IN  /\ Install(r.engine)
        /\ ret' = r.ret
        /\ UNCHANGED <<image, seed, reconnected>>
        /\ UNCHANGED morphVars
        /\ UNCHANGED imageVars

Next == Initialize \/ Step

Spec == Init /\ [][Next]_vars

(***************************************************************************)
(* The engine with its setters: any of initialize(), step(),               *)
(* setConnectivity(), setAlgorithm() and setSafetyRadius() in any order,   *)
(* on the grids of SetterImages.                                           *)
(***************************************************************************)
SetterInit ==
    \E c \in Connectivity, a \in FillAlgorithm, r \in Radii,
       img \in SetterImages :
        LET e == FloodFillNew(c, a, r)
        IN  /\ connectivity_ = e.connectivity
            /\ algorithm_ = e.algorithm
            /\ safety_radius_ = e.safety_radius
            /\ offsets_ = e.offsets
            /\ disk_offsets_ = e.disk_offsets
            /\ source_ = e.source
            /\ result_ = e.result
            /\ safety_mask_ = e.safety_mask
            /\ state_ = e.state
            /\ frontier_ = e.frontier
            /\ current_pixel_ = e.current_pixel
            /\ target_value_ = e.target_value
            /\ initialized_ = e.initialized
            /\ filled_count_ = e.filled_count
            /\ unsafe_count_ = e.unsafe_count
            /\ width_ = e.width
            /\ height_ = e.height
            /\ image = img
            /\ seed = <<-1, -1>>
            /\ ret = "none"
            /\ reconnected = FALSE
            /\ se_ = createSquare(1)
            /\ built = [builder |-> "createSquare", size |-> 1]
            /\ operation_ = "Erosion"
            /\ boundary_ = "Zero"
            /\ input = BinaryImage(1, 1, FALSE)
            /\ output = NoImage
            /\ applied_with = NotApplied
            /\ ImageIdle

SetConnectivity ==
    \E c \in Connectivity :
        /\ Install(setConnectivity(Engine, c))
        /\ ret' = "none"
        /\ reconnected' = TRUE
        /\ UNCHANGED <<image, seed>>
        /\ UNCHANGED morphVars
        /\ UNCHANGED imageVars

SetAlgorithm ==
    \E a \in FillAlgorithm :
        /\ Install(setAlgorithm(Engine, a))
        /\ ret' = "none"
        /\ UNCHANGED <<image, seed, reconnected>>
        /\ UNCHANGED morphVars
        /\ UNCHANGED imageVars

SetSafetyRadius ==
    \E r \in Radii :
        /\ Install(setSafetyRadius(Engine, r))
        /\ ret' = "none"
        /\ UNCHANGED <<image, seed, reconnected>>
        /\ UNCHANGED morphVars
        /\ UNCHANGED imageVars

SetterNext ==
    \/ Initialize
    \/ Step
    \/ SetConnectivity
    \/ SetAlgorithm
    \/ SetSafetyRadius

SpecSetters == SetterInit /\ [][SetterNext]_vars

(***************************************************************************)
(* The morphology engine on its own: constructed over a structuring        *)
(* element, an operation and a boundary mode, then applied to the input,   *)
(* with setOperation() and setBoundaryMode() called at any time.           *)
(***************************************************************************)
MorphInit ==
    /\ \E b \in Builders, n \in 1..MaxSE :
          /\ built = [builder |-> b, size |-> n]
          /\ se_ = Build(b, n)
    /\ operation_ \in MorphOperation
    /\ boundary_ \in BoundaryMode
    /\ input \in MorphImages
    /\ output = NoImage
    /\ applied_with = NotApplied
    /\ LET e == FloodFillNew("Four", "BFS", 0)
       IN  /\ connectivity_ = e.connectivity
           /\ algorithm_ = e.algorithm
           /\ safety_radius_ = e.safety_radius
           /\ offsets_ = e.offsets
           /\ disk_offsets_ = e.disk_offsets
           /\ source_ = e.source
           /\ result_ = e.result
           /\ safety_mask_ = e.safety_mask
           /\ state_ = e.state
           /\ frontier_ = e.frontier
           /\ current_pixel_ = e.current_pixel
           /\ target_value_ = e.target_value
           /\ initialized_ = e.initialized
           /\ filled_count_ = e.filled_count
           /\ unsafe_count_ = e.unsafe_count
           /\ width_ = e.width
           /\ height_ = e.height
    /\ image = BinaryImage(1, 1, FALSE)
    /\ seed = <<-1, -1>>
    /\ ret = "none"
    /\ reconnected = FALSE
    /\ ImageIdle

Apply ==
    /\ output' = apply(Morph, input)
    /\ applied_with' = [operation |-> operation_, boundary |-> boundary_]
    /\ UNCHANGED <<se_, operation_, boundary_, input, built>>
    /\ UNCHANGED floodVars
    /\ UNCHANGED imageVars

SetOperation ==
    \E op \in MorphOperation :
        /\ operation_' = setOperation(Morph, op).operation
        /\ UNCHANGED <<se_, boundary_, input, output, built, applied_with>>
        /\ UNCHANGED floodVars
        /\ UNCHANGED imageVars

SetBoundaryMode ==
    \E mode \in BoundaryMode :
        /\ boundary_' = setBoundaryMode(Morph, mode).boundary
        /\ UNCHANGED <<se_, operation_, input, output, built, applied_with>>
        /\ UNCHANGED floodVars
        /\ UNCHANGED imageVars

MorphNext == Apply \/ SetOperation \/ SetBoundaryMode

SpecMorph == MorphInit /\ [][MorphNext]_vars

(***************************************************************************)
(* BinaryImage in use: construction, then any sequence of get, set, clear, *)
(* fill on the grid or on its clone, and clone() of the grid.              *)
(***************************************************************************)
Target(t) == IF t = "grid" THEN grid ELSE copy

Exists(t) == Target(t).width > 0

Coords(obj) == ((-1)..obj.width) \X ((-1)..obj.height)

InBounds(obj, x, y) == x >= 0 /\ x < obj.width /\ y >= 0 /\ y < obj.height

Bool(b) == IF b THEN "true" ELSE "false"

ImageInit ==
    /\ \E d \in Dims, f \in BOOLEAN :
          /\ grid = [width |-> d[1], height |-> d[2], pixels_ |-> "grid"]
          /\ storage = [b \in Targets |->
                          IF b = "grid" THEN BinaryImage(d[1], d[2], f).pixels
                          ELSE << >>]
          /\ call = Call("new", "grid", 0, 0, f, "none")
    /\ copy = NoObject
    /\ got = "none"
    /\ LET e == FloodFillNew("Four", "BFS", 0)
       IN  /\ connectivity_ = e.connectivity
           /\ algorithm_ = e.algorithm
           /\ safety_radius_ = e.safety_radius
           /\ offsets_ = e.offsets
           /\ disk_offsets_ = e.disk_offsets
           /\ source_ = e.source
           /\ result_ = e.result
           /\ safety_mask_ = e.safety_mask
           /\ state_ = e.state
           /\ frontier_ = e.frontier
           /\ current_pixel_ = e.current_pixel
           /\ target_value_ = e.target_value
           /\ initialized_ = e.initialized
           /\ filled_count_ = e.filled_count
           /\ unsafe_count_ = e.unsafe_count
           /\ width_ = e.width
           /\ height_ = e.height
    /\ image = BinaryImage(1, 1, FALSE)
    /\ seed = <<-1, -1>>
    /\ ret = "none"
    /\ reconnected = FALSE
    /\ se_ = createSquare(1)
    /\ built = [builder |-> "createSquare", size |-> 1]
    /\ operation_ = "Erosion"
    /\ boundary_ = "Zero"
    /\ input = BinaryImage(1, 1, FALSE)
    /\ output = NoImage
    /\ applied_with = NotApplied

Set(t) ==
    /\ Exists(t)
    /\ \E p \in Coords(Target(t)), v \in BOOLEAN :
          /\ storage' = Store(storage, Target(t),
                              ImgSet(Deref(storage, Target(t)), p[1], p[2], v))
          /\ call' = Call("set", t, p[1], p[2], v, "none")
    /\ got' = "none"
    /\ UNCHANGED <<grid, copy>>
    /\ UNCHANGED <<floodVars, morphVars>>

Get(t) ==
    /\ Exists(t)
    /\ \E p \in Coords(Target(t)) :
          /\ got' = Bool(ImgGet(Deref(storage, Target(t)), p[1], p[2]))
          /\ call' = Call("get", t, p[1], p[2], FALSE,
                          IF /\ call.op = "set" /\ call.on = t
                             /\ call.x = p[1] /\ call.y = p[2]
                             /\ InBounds(Target(t), p[1], p[2])
                          THEN Bool(call.value) ELSE "none")
    /\ UNCHANGED <<storage, grid, copy>>
    /\ UNCHANGED <<floodVars, morphVars>>

Clear(t) ==
    /\ Exists(t)
    /\ storage' = Store(storage, Target(t), clear(Deref(storage, Target(t))))
    /\ call' = Call("clear", t, 0, 0, FALSE, "none")
    /\ got' = "none"
    /\ UNCHANGED <<grid, copy>>
    /\ UNCHANGED <<floodVars, morphVars>>

Fill(t) ==
    /\ Exists(t)
    /\ \E v \in BOOLEAN :
          /\ storage' = Store(storage, Target(t),
                              fill(Deref(storage, Target(t)), v))
          /\ call' = Call("fill", t, 0, 0, v, "none")
    /\ got' = "none"
    /\ UNCHANGED <<grid, copy>>
    /\ UNCHANGED <<floodVars, morphVars>>

Clone ==
    /\ LET r == clone(storage, grid)
       IN  /\ storage' = r.storage
           /\ copy' = r.copy
    /\ call' = Call("clone", "grid", 0, 0, FALSE, "none")
    /\ got' = "none"
    /\ UNCHANGED grid
    /\ UNCHANGED <<floodVars, morphVars>>

ImageNext ==
    \/ \E t \in Targets : Set(t)
    \/ \E t \in Targets : Get(t)
    \/ \E t \in Targets : Clear(t)
    \/ \E t \in Targets : Fill(t)
    \/ Clone

SpecImage == ImageInit /\ [][ImageNext]_vars

(***************************************************************************)
(* Vocabulary of the properties.                                           *)
(***************************************************************************)
GridPixels == Pixels(image.width, image.height)

SeedInGrid == seed \in GridPixels

PixelsIn(e, s) == { p \in GridPixels : getState(e, p[1], p[2]) = s }

Abs(n) == IF n < 0 THEN -n ELSE n

(* Adjacency under a connectivity, stated without the offset list.         *)
Adjacent(c, p, q) ==
    LET dx == Abs(p[1] - q[1])
        dy == Abs(p[2] - q[2])
    IN  IF c = "Four" THEN dx + dy = 1
        ELSE p # q /\ dx <= 1 /\ dy <= 1

SameValue(p) == ImgGet(image, p[1], p[2]) = ImgGet(image, seed[1], seed[2])

Fillable(p) == SameValue(p) /\ ImgGet(safety_mask_, p[1], p[2])

RECURSIVE Grow(_)
Grow(S) ==
    LET T == S \cup { q \in GridPixels :
                        Fillable(q) /\ \E p \in S : Adjacent(connectivity_, p, q) }
    IN  IF T = S THEN S ELSE Grow(T)

(* The pixels joined to the seed by a path of fillable neighbours.         *)
Reachable == IF SeedInGrid /\ Fillable(seed) THEN Grow({seed}) ELSE {}

(* step() called until the frontier is empty.                              *)
RECURSIVE RunToCompletion(_)
RunToCompletion(e) ==
    IF ~e.initialized \/ e.frontier = << >> THEN e
    ELSE RunToCompletion(step(e).engine)

OtherAlgorithm(a) == IF a = "BFS" THEN "DFS" ELSE "BFS"

(* What a caller sees of a finished fill.                                  *)
FinalView(e) ==
    [state  |-> [p \in GridPixels |-> getState(e, p[1], p[2])],
     filled |-> e.filled_count,
     unsafe |-> e.unsafe_count]

Ring == { p \in Pixels(5, 5) : p[1] \in {0, 4} \/ p[2] \in {0, 4} }
Corners == { p \in Pixels(5, 5) : p[1] \in {0, 4} /\ p[2] \in {0, 4} }
Inner == Pixels(5, 5) \ Ring

Scenario5x5 ==
    /\ image = BinaryImage(5, 5, TRUE)
    /\ connectivity_ = "Four"
    /\ safety_radius_ = 1
    /\ seed = <<2, 2>>
    /\ isComplete(Engine)

(* C1 as claimed: the scenario ends with the whole ring Unsafe,            *)
(* filled_count = 9 and unsafe_count = 16.                                 *)
C1_Original ==
    Scenario5x5 =>
        /\ PixelsIn(Engine, "Unsafe") = Ring
        /\ PixelsIn(Engine, "Processed") = Inner
        /\ filled_count_ = 9
        /\ unsafe_count_ = 16

(* C1 amended: the 5x5 all-foreground fill with radius 1, 4-connectivity   *)
(* and seed (2,2) ends with the inner 3x3 block Processed, the 12 ring     *)
(* pixels that are not corners Unsafe, the 4 corners Unvisited,            *)
(* filled_count = 9 and unsafe_count = 12.                                 *)
C1_ScenarioResult ==
    Scenario5x5 =>
        /\ PixelsIn(Engine, "Processed") = Inner
        /\ PixelsIn(Engine, "Unsafe") = Ring \ Corners
        /\ PixelsIn(Engine, "Unvisited") = Corners
        /\ filled_count_ = 9
        /\ unsafe_count_ = 12

C1_Witness == Scenario5x5 /\ filled_count_ = 9 /\ ret = "false"

(* C2 as claimed: at completion Processed is exactly the set reachable     *)
(* through fillable neighbours, and every other same-valued pixel with no  *)
(* Processed neighbour is Unvisited.                                       *)
C2_Original ==
    isComplete(Engine) =>
        /\ PixelsIn(Engine, "Processed") = Reachable
        /\ \A p \in GridPixels :
              ( /\ SameValue(p)
                /\ p \notin Reachable
                /\ ~\E q \in PixelsIn(Engine, "Processed") :
                       Adjacent(connectivity_, p, q) )
              => getState(Engine, p[1], p[2]) = "Unvisited"

(* C2 amended: at completion Processed is exactly the set reachable        *)
(* through fillable neighbours, and every other same-valued pixel with no  *)
(* Processed neighbour is Unvisited, except the seed itself when it is not *)
(* safe, which is Unsafe.                                                  *)
C2_ProcessedIsReachable ==
    isComplete(Engine) =>
        /\ PixelsIn(Engine, "Processed") = Reachable
        /\ \A p \in GridPixels :
              ( /\ SameValue(p)
                /\ p \notin Reachable
                /\ ~\E q \in PixelsIn(Engine, "Processed") :
                       Adjacent(connectivity_, p, q) )
              => IF p = seed /\ ~ImgGet(safety_mask_, p[1], p[2])
                 THEN getState(Engine, p[1], p[2]) = "Unsafe"
                 ELSE getState(Engine, p[1], p[2]) = "Unvisited"

C2_Witness ==
    /\ isComplete(Engine)
    /\ filled_count_ >= 2
    /\ \E p \in GridPixels :
          SameValue(p) /\ getState(Engine, p[1], p[2]) = "Unvisited"
    /\ \E p \in GridPixels : getState(Engine, p[1], p[2]) = "Boundary"

(* C3: a finished fill shows the same pixel states and the same counters   *)
(* as the fill of the same grid from the same seed, connectivity and       *)
(* radius run to completion under the other algorithm.                     *)
C3_BfsDfsSamePartition ==
    frontier_ = << >> =>
        FinalView(Engine) =
            FinalView(RunToCompletion(
                initialize(FloodFillNew(connectivity_,
                                        OtherAlgorithm(algorithm_),
                                        safety_radius_),
                           image, seed[1], seed[2])))

C3_Witness ==
    /\ isComplete(Engine)
    /\ algorithm_ = "DFS"
    /\ filled_count_ >= 4
    /\ unsafe_count_ >= 1

StepWasEffective == initialized_ /\ frontier_ # << >>

(* C4: in a step() no pixel returns to Unvisited, a pixel leaves InQueue   *)
(* only for Processed, and Processed, Boundary and Unsafe pixels keep      *)
(* their state.                                                            *)
C4_StateTransitions ==
    [][ Step =>
          \A p \in GridPixels :
             LET a == getState(Engine, p[1], p[2])
                 b == getState(Engine', p[1], p[2])
             IN  /\ b = "Unvisited" => a = "Unvisited"
                 /\ a = "InQueue" => b \in {"InQueue", "Processed"}
                 /\ a \in {"Processed", "Boundary", "Unsafe"} => b = a ]_vars

C4_Witness ==
    /\ isComplete(Engine)
    /\ ret = "false"
    /\ PixelsIn(Engine, "Processed") # {}
    /\ PixelsIn(Engine, "Boundary") # {}
    /\ PixelsIn(Engine, "Unsafe") # {}

(* C5: every step() on a non-empty frontier dequeues one pixel that was    *)
(* not processed before and adds one to filled_count, and filled_count     *)
(* plus the frontier size never exceeds W*H, so the frontier is empty      *)
(* after at most W*H steps.                                                *)
C5_TerminatesWithinArea ==
    /\ [](initialized_ =>
            /\ filled_count_ + Len(frontier_) <= width_ * height_
            /\ filled_count_ = Cardinality(PixelsIn(Engine, "Processed")))
    /\ [][ (Step /\ StepWasEffective) =>
             /\ filled_count_' = filled_count_ + 1
             /\ Len(frontier_') < width_ * height_ - filled_count_
             /\ getState(Engine, current_pixel_'[1], current_pixel_'[2])
                    # "Processed" ]_vars

C5_Witness ==
    /\ isComplete(Engine)
    /\ filled_count_ = width_ * height_
    /\ filled_count_ >= 6

(* C6: isComplete() is initialized with an empty frontier, and a step()    *)
(* taken then returns false and changes nothing a caller can query.        *)
C6_StepAfterCompleteIsNoOp ==
    /\ [](isComplete(Engine) <=> (initialized_ /\ Len(frontier_) = 0))
    /\ [][ (isComplete(Engine) /\ Step) =>
             /\ ret' = "false"
             /\ UNCHANGED <<state_, result_, frontier_, filled_count_,
                            unsafe_count_, current_pixel_>> ]_vars

C6_Witness ==
    /\ isComplete(Engine)
    /\ filled_count_ = 0
    /\ ret = "false"

EngineVars ==
    <<connectivity_, algorithm_, safety_radius_, offsets_, disk_offsets_,
      source_, result_, safety_mask_, state_, frontier_, current_pixel_,
      target_value_, initialized_, filled_count_, unsafe_count_,
      width_, height_>>

(* C7: after initialize() with a seed outside the grid the engine is not   *)
(* initialized, isComplete() is false, every pixel is Unvisited, the       *)
(* counters and the frontier size are 0, and step() returns false and      *)
(* changes nothing.                                                        *)
C7_OutOfBoundsSeedIsInert ==
    /\ []((width_ > 0 /\ ~SeedInGrid) =>
            /\ ~initialized_
            /\ ~isComplete(Engine)
            /\ PixelsIn(Engine, "Unvisited") = GridPixels
            /\ filled_count_ = 0
            /\ unsafe_count_ = 0
            /\ Len(frontier_) = 0
            /\ ret # "true")
    /\ [][ (Step /\ width_ > 0 /\ ~SeedInGrid) =>
             ret' = "false" /\ UNCHANGED EngineVars ]_vars

C7_Witness ==
    /\ width_ > 0
    /\ ~SeedInGrid
    /\ ret = "false"
    /\ target_value_ = TRUE

SeedIsUnsafe ==
    initialized_ /\ SeedInGrid /\ ~ImgGet(safety_mask_, seed[1], seed[2])

(* C8: when the in-bounds seed is not safe the frontier is empty, the seed *)
(* is Unsafe, unsafe_count = 1, filled_count = 0, isComplete() is true,    *)
(* every other pixel is Unvisited and the result grid is all false, after  *)
(* initialize() and after any number of step() calls.                      *)
C8_UnsafeSeed ==
    SeedIsUnsafe =>
        /\ frontier_ = << >>
        /\ getState(Engine, seed[1], seed[2]) = "Unsafe"
        /\ unsafe_count_ = 1
        /\ filled_count_ = 0
        /\ isComplete(Engine)
        /\ PixelsIn(Engine, "Unvisited") = GridPixels \ {seed}
        /\ \A p \in GridPixels : ~ImgGet(result_, p[1], p[2])
        /\ ret # "true"

C8_Witness ==
    /\ SeedIsUnsafe
    /\ ret = "false"
    /\ \E p \in GridPixels : p # seed /\ SameValue(p)

(* The coordinates a caller probes: the grid and one step beyond it.       *)
Probes == ((-1)..image.width) \X ((-1)..image.height)

(* Every public query of the engine.                                       *)
Queries(e) ==
    [getState             |-> [p \in Probes |-> getState(e, p[1], p[2])],
     getResult            |-> e.result,
     getFilledCount       |-> e.filled_count,
     getUnsafeCount       |-> e.unsafe_count,
     getFrontierPositions |-> e.frontier,
     isComplete           |-> isComplete(e),
     getCurrentPixel      |-> e.current_pixel,
     getSafetyMask        |-> e.safety_mask,
     checkCircleFits      |-> [p \in Probes |-> checkCircleFits(e, p[1], p[2])]]

(* C9: after any initialize() every public query answers as on a newly     *)
(* constructed engine of the same configuration given the same call.       *)
C9_InitializeStartsFresh ==
    [][ Initialize =>
          Queries(Engine') =
              Queries(initialize(FloodFillNew(connectivity_, algorithm_,
                                              safety_radius_),
                                 image, seed'[1], seed'[2])) ]_vars

InputPixels == Pixels(input.width, input.height)

(* The latest output is that of apply() under the operation and boundary   *)
(* mode the engine has now.                                                *)
Applied ==
    /\ output # NoImage
    /\ applied_with = [operation |-> operation_, boundary |-> boundary_]

(* C10: the Gradient output of apply is, pixel by pixel, the union of the  *)
(* InnerBoundary and OuterBoundary outputs under the same structuring      *)
(* element and boundary mode.                                              *)
C10_GradientIsInnerOrOuter ==
    (Applied /\ operation_ = "Gradient") =>
        LET inner == apply(MorphologyNew(se_, "InnerBoundary", boundary_), input)
            outer == apply(MorphologyNew(se_, "OuterBoundary", boundary_), input)
        IN  \A p \in InputPixels :
               ImgGet(output, p[1], p[2]) =
                  (ImgGet(inner, p[1], p[2]) \/ ImgGet(outer, p[1], p[2]))

C10_Witness ==
    /\ Applied
    /\ operation_ = "Gradient"
    /\ \E p \in InputPixels :
          /\ ImgGet(output, p[1], p[2])
          /\ ImgGet(input, p[1], p[2])
    /\ \E p \in InputPixels :
          /\ ImgGet(output, p[1], p[2])
          /\ ~ImgGet(input, p[1], p[2])

OutputOf(op) == apply(MorphologyNew(se_, op, boundary_), input)

(* C11: every pixel set in the Erosion output is set in the input, and     *)
(* every pixel set in the input is set in the Dilation output.             *)
C11_ErosionShrinksDilationExpands ==
    Applied =>
        /\ operation_ = "Erosion" =>
              \A p \in InputPixels :
                 ImgGet(output, p[1], p[2]) => ImgGet(input, p[1], p[2])
        /\ operation_ = "Dilation" =>
              \A p \in InputPixels :
                 ImgGet(input, p[1], p[2]) => ImgGet(output, p[1], p[2])

C11_Witness ==
    /\ Applied
    /\ operation_ = "Erosion"
    /\ boundary_ = "One"
    /\ \E p \in InputPixels : ImgGet(output, p[1], p[2])
    /\ \E p \in InputPixels :
          ImgGet(input, p[1], p[2]) /\ ~ImgGet(output, p[1], p[2])

(* C12: every pixel set in the InnerBoundary output is set in the input.   *)
C12_InnerBoundaryInsideInput ==
    (Applied /\ operation_ = "InnerBoundary") =>
        \A p \in InputPixels :
           ImgGet(output, p[1], p[2]) => ImgGet(input, p[1], p[2])

C12_Witness ==
    /\ Applied
    /\ operation_ = "InnerBoundary"
    /\ \E p \in InputPixels : ImgGet(output, p[1], p[2])
    /\ \E p \in InputPixels : ~ImgGet(input, p[1], p[2])

(* C13: no pixel set in the OuterBoundary output is set in the input.      *)
C13_OuterBoundaryOutsideInput ==
    (Applied /\ operation_ = "OuterBoundary") =>
        \A p \in InputPixels :
           ~(ImgGet(output, p[1], p[2]) /\ ImgGet(input, p[1], p[2]))

C13_Witness ==
    /\ Applied
    /\ operation_ = "OuterBoundary"
    /\ \E p \in InputPixels : ImgGet(output, p[1], p[2])
    /\ \E p \in InputPixels : ImgGet(input, p[1], p[2])

(* C14: a pixel is set in the Gradient output exactly when it is set in    *)
(* the Dilation output and not set in the Erosion output.                  *)
C14_GradientIsDilatedMinusEroded ==
    (Applied /\ operation_ = "Gradient") =>
        LET dilated == OutputOf("Dilation")
            eroded  == OutputOf("Erosion")
        IN  \A p \in InputPixels :
               ImgGet(output, p[1], p[2]) <=>
                  (ImgGet(dilated, p[1], p[2]) /\ ~ImgGet(eroded, p[1], p[2]))

C14_Witness ==
    /\ Applied
    /\ operation_ = "Gradient"
    /\ \E p \in InputPixels : ImgGet(output, p[1], p[2])
    /\ \E p \in InputPixels : ImgGet(OutputOf("Erosion"), p[1], p[2])
    /\ \E p \in InputPixels : ~ImgGet(OutputOf("Dilation"), p[1], p[2])

AllForeground(img) == img = BinaryImage(img.width, img.height, TRUE)

LargerThanGrid(se, img) == se.width > img.width /\ se.height > img.height

(* C15: under Extend, the Erosion and the Dilation of an all-foreground    *)
(* grid are all-foreground, for every structuring element of the builders, *)
(* those larger than the grid included.                                    *)
C15_ExtendKeepsAllForeground ==
    (/\ Applied
     /\ boundary_ = "Extend"
     /\ operation_ \in {"Erosion", "Dilation"}
     /\ AllForeground(input)) => output = input

C15_Witness ==
    /\ Applied
    /\ boundary_ = "Extend"
    /\ operation_ = "Erosion"
    /\ AllForeground(input)
    /\ LargerThanGrid(se_, input)
    /\ se_ = createSquare(MaxSE)
    /\ output = input

(* C16: under Wrap, the Erosion and the Dilation of an all-foreground grid *)
(* are all-foreground, for every structuring element of the builders,      *)
(* those larger than the grid included.                                    *)
C16_WrapKeepsAllForeground ==
    (/\ Applied
     /\ boundary_ = "Wrap"
     /\ operation_ \in {"Erosion", "Dilation"}
     /\ AllForeground(input)) => output = input

C16_Witness ==
    /\ Applied
    /\ boundary_ = "Wrap"
    /\ operation_ = "Erosion"
    /\ AllForeground(input)
    /\ LargerThanGrid(se_, input)
    /\ se_ = createCross(MaxSE)
    /\ output = input

(* C17: under Zero, the Erosion of an all-foreground W x H grid by         *)
(* createSquare(3) sets exactly the pixels with 1 <= x <= W-2 and          *)
(* 1 <= y <= H-2: on the 5x5 grid, the 3x3 interior.                       *)
C17_ZeroErosionLeavesInterior ==
    (/\ Applied
     /\ boundary_ = "Zero"
     /\ operation_ = "Erosion"
     /\ se_ = createSquare(3)
     /\ AllForeground(input)) =>
        /\ output.width = input.width
        /\ output.height = input.height
        /\ \A p \in InputPixels :
              ImgGet(output, p[1], p[2]) <=>
                 (/\ 1 <= p[1] /\ p[1] <= input.width - 2
                  /\ 1 <= p[2] /\ p[2] <= input.height - 2)

C17_Witness ==
    /\ Applied
    /\ boundary_ = "Zero"
    /\ operation_ = "Erosion"
    /\ se_ = createSquare(3)
    /\ input = BinaryImage(5, 5, TRUE)
    /\ { p \in InputPixels : ImgGet(output, p[1], p[2]) } = (1..3) \X (1..3)

GridValue == Deref(storage, grid)

CopyValue == Deref(storage, copy)

ValueOf(t) == Deref(storage, Target(t))

Other(t) == IF t = "grid" THEN "copy" ELSE "grid"

(* C18: a get() that directly follows an in-bounds set() of the same pixel *)
(* returns the value written, and a get() at a coordinate outside           *)
(* [0,width) x [0,height), negative ones included, returns false.          *)
C18_GetAfterSetAndOutOfBounds ==
    call.op = "get" =>
        /\ call.wrote # "none" => got = call.wrote
        /\ ~InBounds(Target(call.on), call.x, call.y) => got = "false"

C18_Witness ==
    /\ call.op = "get"
    /\ call.wrote = "true"
    /\ got = "true"
    /\ call.x > 0
    /\ Target(call.on).height > 1
    /\ \E p \in Pixels(grid.width, grid.height) :
          ~ImgGet(ValueOf(call.on), p[1], p[2])

(* C19: a set() outside the grid changes no pixel and a set() inside the   *)
(* grid changes no pixel other than the one addressed.                     *)
C19_SetFrame ==
    [][call'.op = "set" =>
          LET obj    == Target(call'.on)
              before == Deref(storage, obj)
              after  == Deref(storage', obj)
          IN  IF InBounds(obj, call'.x, call'.y)
              THEN /\ Len(after.pixels) = Len(before.pixels)
                   /\ \A p \in Pixels(obj.width, obj.height) \ {<<call'.x, call'.y>>} :
                         ImgGet(after, p[1], p[2]) = ImgGet(before, p[1], p[2])
              ELSE after = before]_vars

C19_Witness ==
    /\ call.op = "set"
    /\ call.on = "grid"
    /\ call.x = grid.width
    /\ call.y = 0
    /\ call.value
    /\ grid.height > 1
    /\ ~ImgGet(GridValue, 0, 1)

(* C20: clone() returns a grid of the same width, height and pixels, and   *)
(* a later set, fill or clear on the grid or on the clone leaves the other *)
(* one unchanged.                                                          *)
C20_CloneIsIndependentCopy ==
    [][/\ call'.op = "clone" =>
             /\ Deref(storage', copy') = Deref(storage, grid)
             /\ Deref(storage', grid') = Deref(storage, grid)
       /\ (call'.op \in {"set", "fill", "clear"} /\ Exists("copy")) =>
             Deref(storage', Target(Other(call'.on))) = ValueOf(Other(call'.on))
      ]_vars

C20_Witness ==
    /\ Exists("copy")
    /\ call.op \in {"set", "fill", "clear"}
    /\ call.on = "copy"
    /\ CopyValue.width = GridValue.width
    /\ CopyValue.height = GridValue.height
    /\ \A p \in Pixels(grid.width, grid.height) :
          ImgGet(CopyValue, p[1], p[2]) # ImgGet(GridValue, p[1], p[2])

(* C21: with safety radius 0, after initialize() with an in-bounds seed,   *)
(* checkCircleFits(cx, cy) is true exactly when (cx, cy) is inside the     *)
(* grid and the grid's pixel there equals its pixel at the seed.           *)
C21_RadiusZeroCircleFits ==
    (initialized_ /\ safety_radius_ = 0) =>
        \A q \in Probes :
           checkCircleFits(Engine, q[1], q[2]) <=>
              (q \in GridPixels /\ SameValue(q))

C21_Witness ==
    /\ initialized_
    /\ safety_radius_ = 0
    /\ ~ImgGet(image, seed[1], seed[2])
    /\ \E q \in GridPixels : checkCircleFits(Engine, q[1], q[2])
    /\ \E q \in GridPixels : ~checkCircleFits(Engine, q[1], q[2])

OffsetsOf(se) == { se.offsets[i] : i \in 1..Len(se.offsets) }

NoDuplicates(seq) == Cardinality({ seq[i] : i \in 1..Len(seq) }) = Len(seq)

(* C22: createSquare(n) records width = height = n and centre n/2, and its *)
(* offsets are all (dx, dy) with -n/2 <= dx, dy <= n/2, each once; for     *)
(* even n that footprint is n + 1 wide (createSquare(4): 25 offsets over   *)
(* -2..2).                                                                 *)
C22_SquareOffsets ==
    built.builder = "createSquare" =>
        LET n == built.size
            c == CDiv(n, 2)
        IN  /\ se_.width = n /\ se_.height = n
            /\ se_.center_x = c /\ se_.center_y = c
            /\ OffsetsOf(se_) = ((-c)..c) \X ((-c)..c)
            /\ NoDuplicates(se_.offsets)
            /\ n % 2 = 0 => Len(se_.offsets) = (n + 1) * (n + 1)

C22_Witness ==
    /\ Applied
    /\ built = [builder |-> "createSquare", size |-> 4]
    /\ se_.width = 4
    /\ Len(se_.offsets) = 25
    /\ <<-2, 2>> \in OffsetsOf(se_)

(* C23: createCross(n) lists 4 * (n/2) + 1 offsets without duplicates:     *)
(* (0, 0) once, every (dx, 0) and every (0, dy) with -n/2 <= dx, dy <= n/2 *)
(* and none with both dx and dy non-zero.                                  *)
C23_CrossOffsets ==
    built.builder = "createCross" =>
        LET n == built.size
            c == CDiv(n, 2)
        IN  /\ NoDuplicates(se_.offsets)
            /\ Cardinality({ i \in 1..Len(se_.offsets) :
                               se_.offsets[i] = <<0, 0>> }) = 1
            /\ \A d \in (-c)..c :
                  <<d, 0>> \in OffsetsOf(se_) /\ <<0, d>> \in OffsetsOf(se_)
            /\ \A o \in OffsetsOf(se_) : o[1] = 0 \/ o[2] = 0
            /\ Len(se_.offsets) = 4 * c + 1

C23_Witness ==
    /\ Applied
    /\ built = [builder |-> "createCross", size |-> MaxSE]
    /\ Len(se_.offsets) > 1
    /\ <<0, -CDiv(MaxSE, 2)>> \in OffsetsOf(se_)

FrontierPixels == { frontier_[i] : i \in 1..Len(frontier_) }

(* C24: the frontier holds exactly the InQueue pixels, each once and all   *)
(* inside the grid, so its size is the number of InQueue pixels.           *)
C24_FrontierIsInQueue ==
    /\ FrontierPixels = PixelsIn(Engine, "InQueue")
    /\ FrontierPixels \subseteq GridPixels
    /\ NoDuplicates(frontier_)
    /\ Len(frontier_) = Cardinality(PixelsIn(Engine, "InQueue"))

C24_Witness ==
    /\ Len(frontier_) >= 2
    /\ ret = "true"
    /\ PixelsIn(Engine, "Processed") # {}
    /\ PixelsIn(Engine, "Unvisited") # {}

(* C25: filled_count is the number of Processed pixels, the result grid is *)
(* true exactly at the Processed pixels, and unsafe_count is the number of *)
(* Unsafe pixels.                                                          *)
C25_CountersMatchStates ==
    /\ filled_count_ = Cardinality(PixelsIn(Engine, "Processed"))
    /\ \A p \in GridPixels :
          ImgGet(result_, p[1], p[2]) <=> getState(Engine, p[1], p[2]) = "Processed"
    /\ unsafe_count_ = Cardinality(PixelsIn(Engine, "Unsafe"))

C25_Witness ==
    /\ filled_count_ >= 2
    /\ unsafe_count_ >= 2
    /\ PixelsIn(Engine, "InQueue") # {}

(* C26: every InQueue or Processed pixel has the target value and is safe  *)
(* in the safety mask, every Boundary pixel has another value than the     *)
(* target, and every Unsafe pixel has the target value and is not safe in  *)
(* the safety mask.                                                        *)
C26_StatesAgreeWithGrid ==
    \A p \in GridPixels :
       LET s    == getState(Engine, p[1], p[2])
           safe == ImgGet(safety_mask_, p[1], p[2])
       IN  /\ s \in {"InQueue", "Processed"} =>
                initialized_ /\ SameValue(p) /\ safe
           /\ s = "Boundary" => initialized_ /\ ~SameValue(p)
           /\ s = "Unsafe" => initialized_ /\ SameValue(p) /\ ~safe

C26_Witness ==
    /\ initialized_
    /\ PixelsIn(Engine, "Processed") # {}
    /\ PixelsIn(Engine, "Boundary") # {}
    /\ PixelsIn(Engine, "Unsafe") # {}

(* What C27 states of a finished fill: every neighbour of a Processed      *)
(* pixel has been visited and left the frontier, every Boundary pixel      *)
(* touches a Processed pixel, and so does every Unsafe pixel but the seed. *)
FillIsClosed ==
    LET processed == PixelsIn(Engine, "Processed")
    IN  /\ \A p \in processed, q \in GridPixels :
              Adjacent(connectivity_, p, q) =>
                 getState(Engine, q[1], q[2]) \notin {"Unvisited", "InQueue"}
        /\ \A b \in PixelsIn(Engine, "Boundary") :
              \E p \in processed : Adjacent(connectivity_, p, b)
        /\ \A u \in PixelsIn(Engine, "Unsafe") :
              u = seed \/ \E p \in processed : Adjacent(connectivity_, p, u)

(* C27 as claimed: whenever isComplete() is true the fill is closed under  *)
(* the configured connectivity.                                            *)
C27_Original == isComplete(Engine) => FillIsClosed

(* C27: whenever isComplete() is true and setConnectivity() was not called *)
(* since initialize(), the fill is closed under the configured             *)
(* connectivity.                                                           *)
C27_CompleteFillIsClosed == (isComplete(Engine) /\ ~reconnected) => FillIsClosed

C27_Witness ==
    /\ isComplete(Engine)
    /\ ~reconnected
    /\ ret = "false"
    /\ PixelsIn(Engine, "Processed") # {}
    /\ PixelsIn(Engine, "Boundary") # {}
    /\ PixelsIn(Engine, "Unsafe") # {}

InitializeCalled == seed # <<-1, -1>>

Disk(r) == { d \in ((-r)..r) \X ((-r)..r) : d[1] * d[1] + d[2] * d[2] <= r * r }

EdgeDistance(p) ==
    LET a == IF p[1] < image.width - 1 - p[1] THEN p[1] ELSE image.width - 1 - p[1]
        b == IF p[2] < image.height - 1 - p[2] THEN p[2] ELSE image.height - 1 - p[2]
    IN  IF a < b THEN a ELSE b

(* What C28 states of the safety mask: at every pixel of the grid it       *)
(* equals checkCircleFits; for radius <= 0 it is true exactly where the    *)
(* source equals the target value, for radius > 0 exactly where every      *)
(* offset of the disk lands inside the grid on a pixel of the target       *)
(* value, so never closer than the radius to an edge.                      *)
MaskIsCircleFits ==
    \A p \in GridPixels :
       LET safe == ImgGet(safety_mask_, p[1], p[2])
       IN  /\ safe <=> checkCircleFits(Engine, p[1], p[2])
           /\ safety_radius_ <= 0 =>
                 (safe <=> ImgGet(source_, p[1], p[2]) = target_value_)
           /\ safety_radius_ > 0 =>
                 /\ safe <=>
                       \A d \in Disk(safety_radius_) :
                          /\ <<p[1] + d[1], p[2] + d[2]>> \in GridPixels
                          /\ ImgGet(source_, p[1] + d[1], p[2] + d[2]) = target_value_
                 /\ EdgeDistance(p) < safety_radius_ => ~safe

(* C28: after initialize(), in a run without setter calls, the safety mask *)
(* is as checkCircleFits says at every pixel of the grid.                  *)
C28_MaskAfterInitialize == InitializeCalled => MaskIsCircleFits

(* C29: the safety mask, the bound source grid and the target value change *)
(* only in initialize(), and a change of the safety radius between two     *)
(* step() calls does not change what the running fill ends with.           *)
C29_MaskChangesOnlyInInitialize ==
    /\ [](\A r \in Radii :
            FinalView(RunToCompletion(setSafetyRadius(Engine, r))) =
               FinalView(RunToCompletion(Engine)))
    /\ [][UNCHANGED <<safety_mask_, source_, target_value_>> \/ Initialize]_vars

C29_Witness ==
    /\ initialized_
    /\ frontier_ # << >>
    /\ PixelsIn(Engine, "Processed") # {}
    /\ ~MaskIsCircleFits
    /\ safety_radius_ > 0
    /\ \A p \in GridPixels : ImgGet(safety_mask_, p[1], p[2])

(* The neighbours of p, in neighbour-offset order, that a step() at p      *)
(* accepts: inside the grid, Unvisited, of the target value and safe.      *)
Accepted(p) ==
    LET around == [i \in 1..Len(offsets_) |->
                     << p[1] + offsets_[i][1], p[2] + offsets_[i][2] >>]
        Ok(q)  == /\ q \in GridPixels
                  /\ getState(Engine, q[1], q[2]) = "Unvisited"
                  /\ ImgGet(source_, q[1], q[2]) = target_value_
                  /\ ImgGet(safety_mask_, q[1], q[2])
    IN  SelectSeq(around, Ok)

(* C30: a step() on an initialized engine with a non-empty frontier        *)
(* removes one coordinate, the oldest under BFS and the newest under DFS,  *)
(* and appends the newly accepted neighbours at the back in neighbour-     *)
(* offset order.                                                           *)
C30_StepRemovesOneAppendsAtBack ==
    [][(StepWasEffective /\ Step) =>
          LET n       == Len(frontier_)
              removed == IF algorithm_ = "BFS" THEN frontier_[1] ELSE frontier_[n]
              kept    == IF algorithm_ = "BFS"
                         THEN SubSeq(frontier_, 2, n)
                         ELSE SubSeq(frontier_, 1, n - 1)
          IN  /\ current_pixel_' = removed
              /\ removed \notin { frontier_'[i] : i \in 1..Len(frontier_') }
              /\ frontier_' = kept \o Accepted(removed)]_vars

C30_Witness ==
    /\ algorithm_ = "DFS"
    /\ ret = "true"
    /\ filled_count_ >= 2
    /\ Len(frontier_) >= 3
    /\ current_pixel_ # seed

(* The state step() gives an Unvisited neighbour q of the processed pixel. *)
Verdict(q) ==
    IF ImgGet(source_, q[1], q[2]) # target_value_ THEN "Boundary"
    ELSE IF ~ImgGet(safety_mask_, q[1], q[2]) THEN "Unsafe"
    ELSE "InQueue"

(* C31: in a step() every Unvisited in-bounds neighbour of the processed   *)
(* pixel becomes Boundary, Unsafe (counted in unsafe_count) or InQueue     *)
(* (pushed to the frontier) by its value and the safety mask, and every    *)
(* other pixel but the processed one keeps its state.                      *)
C31_StepJudgesUnvisitedNeighbours ==
    [][(StepWasEffective /\ Step) =>
          LET p       == current_pixel_'
              judged  == { q \in GridPixels :
                             /\ Adjacent(connectivity_, p, q)
                             /\ getState(Engine, q[1], q[2]) = "Unvisited" }
              after(q) == state_'[q[2] + 1][q[1] + 1]
          IN  /\ \A q \in judged :
                    /\ after(q) = Verdict(q)
                    /\ Verdict(q) = "InQueue" =>
                          \E i \in 1..Len(frontier_') : frontier_'[i] = q
              /\ unsafe_count_' = unsafe_count_ +
                    Cardinality({ q \in judged : Verdict(q) = "Unsafe" })
              /\ \A q \in GridPixels \ (judged \cup {p}) :
                    after(q) = getState(Engine, q[1], q[2])]_vars

C31_Witness ==
    /\ initialized_
    /\ ret = "true"
    /\ getState(Engine, current_pixel_[1], current_pixel_[2]) = "Processed"
    /\ \E q \in GridPixels :
          /\ Adjacent(connectivity_, current_pixel_, q)
          /\ getState(Engine, q[1], q[2]) = "Unsafe"
    /\ \E q \in GridPixels :
          /\ Adjacent(connectivity_, current_pixel_, q)
          /\ getState(Engine, q[1], q[2]) = "InQueue"
    /\ \E q \in GridPixels :
          /\ ~Adjacent(connectivity_, current_pixel_, q)
          /\ getState(Engine, q[1], q[2]) = "Unvisited"

(* C32: on an initialized engine step() returns true exactly when the      *)
(* frontier is non-empty after the step, that is when isComplete() is      *)
(* false afterwards; the step that processes the last pixel fills it and   *)
(* returns false.                                                          *)
C32_StepReturnsFrontierNonEmpty ==
    [][(initialized_ /\ Step) =>
          /\ ret' = "true" <=> frontier_' # << >>
          /\ ret' = "true" <=> ~isComplete(Engine')
          /\ ret' \in {"true", "false"}
          /\ (frontier_ # << >> /\ frontier_' = << >>) =>
                /\ ret' = "false"
                /\ filled_count_' = filled_count_ + 1]_vars

C32_Witness ==
    /\ initialized_
    /\ ret = "false"
    /\ isComplete(Engine)
    /\ filled_count_ >= 2
    /\ getState(Engine, current_pixel_[1], current_pixel_[2]) = "Processed"

(* The number of neighbour steps of the shortest path from the seed to q   *)
(* through fillable pixels (of the seed's value, safe in the mask) under   *)
(* the configured connectivity; -1 when there is none.                     *)
RECURSIVE DistanceVia(_, _, _, _)
DistanceVia(q, layer, seen, d) ==
    IF q \in layer THEN d
    ELSE LET next == { r \in GridPixels \ seen :
                         Fillable(r) /\ \E p \in layer : Adjacent(connectivity_, p, r) }
         IN  IF next = {} THEN -1
             ELSE DistanceVia(q, next, seen \cup next, d + 1)

Distance(q) == DistanceVia(q, {seed}, {seed}, 0)

(* C33: under BFS, in a run without setter calls, each step() processes a  *)
(* pixel at least as far from the seed as every pixel processed before.    *)
C33_BfsProcessesByDistance ==
    [][(algorithm_ = "BFS" /\ StepWasEffective /\ Step) =>
          /\ Distance(current_pixel_') >= 0
          /\ \A p \in PixelsIn(Engine, "Processed") :
                Distance(p) <= Distance(current_pixel_')]_vars

C33_Witness ==
    /\ algorithm_ = "BFS"
    /\ initialized_
    /\ frontier_ # << >>
    /\ Distance(current_pixel_) >= 2
    /\ \E p \in PixelsIn(Engine, "Processed") : Distance(p) = 1
    /\ \E i \in 1..Len(frontier_) : Distance(frontier_[i]) = 3

(* The pure BFS run on the grid, seed, connectivity and radius of the      *)
(* engine, and whether the engine's mask is the one that run computes (it  *)
(* is unless setSafetyRadius() changed the radius after initialize()).     *)
PureBfs == initialize(FloodFillNew(connectivity_, "BFS", safety_radius_), image, seed[1], seed[2])

SameRadiusAsInitialize == PureBfs.safety_mask = safety_mask_

Pending == PixelsIn(Engine, "Unvisited") \cup PixelsIn(Engine, "InQueue")

(* C34: whenever setAlgorithm() is called between step() calls, and with   *)
(* the connectivity and radius left as initialize() found them, finishing  *)
(* the fill gives every pixel the state, and the engine the filled_count   *)
(* and unsafe_count, of a pure BFS run; every effective step() leaves      *)
(* fewer pixels to decide, so the fill completes.                          *)
C34_AlgorithmSwitchesKeepPartition ==
    /\ []((initialized_ /\ ~reconnected /\ SameRadiusAsInitialize) =>
             /\ isComplete(RunToCompletion(Engine))
             /\ FinalView(RunToCompletion(Engine)) = FinalView(RunToCompletion(PureBfs)))
    /\ [][(StepWasEffective /\ Step) =>
             Cardinality(Pending') < Cardinality(Pending)]_vars

(* A state only a mixed run reaches: the seed's first neighbour was taken  *)
(* second (BFS) and then a pixel two steps from the seed third (DFS),      *)
(* while another neighbour of the seed still waits.                        *)
C34_Witness ==
    /\ initialized_ /\ ~reconnected /\ SameRadiusAsInitialize
    /\ filled_count_ = 3
    /\ LET first == <<seed[1] + offsets_[1][1], seed[2] + offsets_[1][2]>>
       IN  /\ first \in GridPixels
           /\ getState(Engine, first[1], first[2]) = "Processed"
    /\ current_pixel_ # seed
    /\ ~Adjacent(connectivity_, seed, current_pixel_)
    /\ \E q \in PixelsIn(Engine, "InQueue") : Adjacent(connectivity_, seed, q)

(* initialize() on the engine's grid and seed by an engine of the same     *)
(* connectivity and algorithm built with radius r.                         *)
RadiusRun(r) == initialize(FloodFillNew(connectivity_, algorithm_, r), image, seed[1], seed[2])

SafePixels(e) == { p \in GridPixels : ImgGet(e.safety_mask, p[1], p[2]) }

FinalProcessed(e) == PixelsIn(RunToCompletion(e), "Processed")

ComparedRadii == 0..(MaxRadius + 1)

(* C35: on one grid, seed and connectivity, a larger radius gives a        *)
(* smaller or equal safety mask and a smaller or equal final Processed     *)
(* set; the engine just initialized is one of the runs compared.           *)
C35_LargerRadiusFillsLess ==
    (InitializeCalled /\ ret = "none") =>
        /\ initialized_ =>
              /\ SafePixels(Engine) = SafePixels(RadiusRun(safety_radius_))
              /\ FinalProcessed(Engine) = FinalProcessed(RadiusRun(safety_radius_))
        /\ \A r1 \in ComparedRadii : \A r2 \in ComparedRadii :
              r1 <= r2 =>
                 /\ SafePixels(RadiusRun(r2)) \subseteq SafePixels(RadiusRun(r1))
                 /\ FinalProcessed(RadiusRun(r2)) \subseteq FinalProcessed(RadiusRun(r1))

C35_Witness ==
    /\ InitializeCalled /\ ret = "none" /\ initialized_
    /\ safety_radius_ = 1
    /\ SafePixels(Engine) # {}
    /\ SafePixels(Engine) # SafePixels(RadiusRun(0))
    /\ FinalProcessed(Engine) # {}
    /\ FinalProcessed(Engine) # FinalProcessed(RadiusRun(0))
    /\ SafePixels(RadiusRun(2)) # SafePixels(Engine)

(* Coordinates up to three grids away on either side.                      *)
FarProbes ==
    ((-(3 * input.width))..(3 * input.width))
    \X ((-(3 * input.height))..(3 * input.height))

(* The grid and the ring of coordinates around it.                         *)
NearProbes == ((-1)..input.width) \X ((-1)..input.height)

Shifts == (-2)..2

(* C36: under Wrap, getPixelWithBoundary at any (x, y), negative or beyond *)
(* twice the dimension, is the stored value at the non-negative remainders *)
(* (x mod width, y mod height), so shifting x by a multiple of the width   *)
(* or y by a multiple of the height does not change it; the Erosion        *)
(* output is made of these readings.                                       *)
C36_WrapReadsModulo ==
    boundary_ = "Wrap" =>
        /\ \A p \in FarProbes :
              getPixelWithBoundary(Morph, input, p[1], p[2])
                 = ImgGet(input, p[1] % input.width, p[2] % input.height)
        /\ \A p \in NearProbes : \A k \in Shifts :
              /\ getPixelWithBoundary(Morph, input, p[1] + k * input.width, p[2])
                    = getPixelWithBoundary(Morph, input, p[1], p[2])
              /\ getPixelWithBoundary(Morph, input, p[1], p[2] + k * input.height)
                    = getPixelWithBoundary(Morph, input, p[1], p[2])
        /\ (Applied /\ operation_ = "Erosion") =>
              \A p \in InputPixels :
                 ImgGet(output, p[1], p[2]) <=>
                    \A i \in 1..Len(se_.offsets) :
                       ImgGet(input, (p[1] + se_.offsets[i][1]) % input.width,
                                     (p[2] + se_.offsets[i][2]) % input.height)

(* An erosion whose element reaches two columns past a grid of two         *)
(* different columns, and both below and above it.                         *)
C36_Witness ==
    /\ boundary_ = "Wrap"
    /\ Applied /\ operation_ = "Erosion"
    /\ input.width = 2 /\ input.height = 1
    /\ ImgGet(input, 0, 0) /\ ~ImgGet(input, 1, 0)
    /\ \E i \in 1..Len(se_.offsets) : se_.offsets[i][1] = -2
    /\ \E i \in 1..Len(se_.offsets) : se_.offsets[i][2] = 2
    /\ getPixelWithBoundary(Morph, input, -2, 0)
    /\ ~getPixelWithBoundary(Morph, input, 5, 0)

Smaller(a, b) == IF a < b THEN a ELSE b
Larger(a, b) == IF a > b THEN a ELSE b

(* The pixel of the grid nearest to (x, y), each coordinate on its own.    *)
Nearest(x, y) ==
    << Smaller(Larger(x, 0), input.width - 1),
       Smaller(Larger(y, 0), input.height - 1) >>

BeyondCorner(p) ==
    /\ p[1] < 0 \/ p[1] >= input.width
    /\ p[2] < 0 \/ p[2] >= input.height

(* C37: under Extend, getPixelWithBoundary at an out-of-bounds (x, y) is   *)
(* the stored value at (min(max(x,0),width-1), min(max(y,0),height-1)), so *)
(* beyond a corner it is the corner pixel, and the Dilation output is made *)
(* of these readings; at an in-bounds (x, y) every mode returns the stored *)
(* value.                                                                  *)
C37_ExtendReadsNearest ==
    /\ \A p \in InputPixels :
          getPixelWithBoundary(Morph, input, p[1], p[2]) = ImgGet(input, p[1], p[2])
    /\ boundary_ = "Extend" =>
          /\ \A p \in FarProbes \ InputPixels :
                LET n == Nearest(p[1], p[2])
                IN  /\ getPixelWithBoundary(Morph, input, p[1], p[2])
                          = ImgGet(input, n[1], n[2])
                    /\ BeyondCorner(p) =>
                          /\ n[1] \in {0, input.width - 1}
                          /\ n[2] \in {0, input.height - 1}
          /\ (Applied /\ operation_ = "Dilation") =>
                \A p \in InputPixels :
                   ImgGet(output, p[1], p[2]) <=>
                      \E i \in 1..Len(se_.offsets) :
                         LET n == Nearest(p[1] + se_.offsets[i][1],
                                          p[2] + se_.offsets[i][2])
                         IN  ImgGet(input, n[1], n[2])

(* A dilation that reads past the corners of a grid whose only set pixel   *)
(* is a corner, and so sets a pixel the element does not reach in bounds.  *)
C37_Witness ==
    /\ boundary_ = "Extend"
    /\ Applied /\ operation_ = "Dilation"
    /\ input.width = 3 /\ input.height = 2
    /\ { p \in InputPixels : ImgGet(input, p[1], p[2]) } = { <<0, 0>> }
    /\ \E i \in 1..Len(se_.offsets) : se_.offsets[i] = <<-2, -2>>
    /\ getPixelWithBoundary(Morph, input, -2, -3)
    /\ ~getPixelWithBoundary(Morph, input, 4, 3)
    /\ ImgGet(output, 2, 1)

(* C38: apply() returns a grid of the input's dimensions and leaves the    *)
(* input as it was; pixel by pixel InnerBoundary is original and not       *)
(* eroded, OuterBoundary is dilated and not original, Gradient is dilated  *)
(* xor eroded, for the Erosion and Dilation outputs of apply under the     *)
(* same structuring element and boundary mode.                             *)
C38_ApplyBoundaryOperations ==
    /\ [](Applied =>
            LET eroded  == OutputOf("Erosion")
                dilated == OutputOf("Dilation")
                original(p) == ImgGet(input, p[1], p[2])
                Expected(p) ==
                    CASE operation_ = "Erosion" -> ImgGet(eroded, p[1], p[2])
                      [] operation_ = "Dilation" -> ImgGet(dilated, p[1], p[2])
                      [] operation_ = "InnerBoundary" ->
                            original(p) /\ ~ImgGet(eroded, p[1], p[2])
                      [] operation_ = "OuterBoundary" ->
                            ImgGet(dilated, p[1], p[2]) /\ ~original(p)
                      [] operation_ = "Gradient" ->
                            ImgGet(dilated, p[1], p[2]) # ImgGet(eroded, p[1], p[2])
            IN  /\ output.width = input.width
                /\ output.height = input.height
                /\ Len(output.pixels) = input.width * input.height
                /\ \A p \in InputPixels : ImgGet(output, p[1], p[2]) = Expected(p))
    /\ [][Apply => input' = input]_vars

C38_Witness ==
    /\ Applied
    /\ operation_ = "OuterBoundary"
    /\ input.width = 3 /\ input.height = 2
    /\ output.width = 3 /\ output.height = 2
    /\ \E p \in InputPixels : ImgGet(output, p[1], p[2])
    /\ \E p \in InputPixels : ~ImgGet(OutputOf("Dilation"), p[1], p[2])
    /\ \E p \in InputPixels : ImgGet(OutputOf("Erosion"), p[1], p[2])
    /\ OutputOf("InnerBoundary") # OutputOf("Gradient")
    /\ OutputOf("InnerBoundary") # BinaryImage(3, 2, FALSE)

(* The grid with every pixel inverted.                                     *)
Complement(img) == [img EXCEPT !.pixels = [i \in DOMAIN img.pixels |-> ~img.pixels[i]]]

(* Zero and One exchanged; Extend and Wrap kept.                           *)
DualMode(b) == IF b = "Zero" THEN "One" ELSE IF b = "One" THEN "Zero" ELSE b

DualOperation(op) == IF op = "Erosion" THEN "Dilation" ELSE "Erosion"

(* C39: the Erosion output of a grid is the complement of the Dilation     *)
(* output of the complemented grid, under One when the erosion is under    *)
(* Zero, under Zero when it is under One, and under the same mode for      *)
(* Extend and for Wrap; and the same with Erosion and Dilation exchanged.  *)
C39_DilationIsDualOfErosion ==
    (Applied /\ operation_ \in {"Erosion", "Dilation"}) =>
        output = Complement(apply(MorphologyNew(se_, DualOperation(operation_),
                                                DualMode(boundary_)),
                                  Complement(input)))

(* An erosion under One of a grid with both values that keeps a pixel and  *)
(* removes a set one, its dual being a dilation under Zero.                *)
C39_Witness ==
    /\ Applied
    /\ operation_ = "Erosion"
    /\ boundary_ = "One"
    /\ DualMode(boundary_) = "Zero"
    /\ Len(se_.offsets) > 1
    /\ \E p \in InputPixels : ~ImgGet(input, p[1], p[2])
    /\ \E p \in InputPixels : ImgGet(output, p[1], p[2])
    /\ output # apply(Morph, BinaryImage(input.width, input.height, TRUE))
    /\ output # input

====
